---- MODULE Spec2Model ----
(***************************************************************************)
(* A model of the sort-keys-fix rule (lib/rules/sort-keys-fix.js): the     *)
(* name extractor, the comparator family, the scope stack driven by the    *)
(* host's visit events, the blank-line detection and the fix generator.    *)
(*                                                                         *)
(* Strings are sequences of UTF-16 code units.  The JavaScript value null  *)
(* (and undefined, where the code does not tell them apart) of a string    *)
(* slot is NULL, a sequence no string equals.                              *)
(***************************************************************************)
EXTENDS Integers, Sequences, FiniteSets, TLC

VARIABLES options, stack, reports, hist, ev, nextId, lit, phase, found, before, applied,
          cmp, blk, gpn

vars == <<options, stack, reports, hist, ev, nextId, lit, phase, found, before, applied,
          cmp, blk, gpn>>

travVars == <<stack, reports, hist, ev, nextId>>
fixVars == <<lit, phase, found, before, applied, cmp, blk, gpn>>

\* ------------------------------------------------------------------ bounds
\* Members (entries and spreads of literals) visited in one traversal.
MaxNodes == 3
\* Composite literals open at the same time.
MaxDepth == 2
\* Members of the literal the fix loop starts from.
MaxLen == 3

\* ----------------------------------------------------------------- strings
NULL == <<-1>>

StrB == <<66>>
StrA10 == <<97, 49, 48>>
StrA2 == <<97, 50>>
StrLa == <<97>>
StrLb == <<98>>
EmptyStr == <<>>

\* a <= b on JavaScript strings: code unit by code unit, a prefix first.
RECURSIVE StrLeq(_, _)
StrLeq(a, b) ==
  IF a = <<>> THEN TRUE
  ELSE IF b = <<>> THEN FALSE
  ELSE IF Head(a) < Head(b) THEN TRUE
  ELSE IF Head(a) > Head(b) THEN FALSE
  ELSE StrLeq(Tail(a), Tail(b))

\* toLowerCase that leaves every character as it is.
toLowerCase_Identity(s) == s

toLowerCase(s) ==
  [i \in 1..Len(s) |-> IF s[i] >= 65 /\ s[i] <= 90 THEN s[i] + 32 ELSE s[i]]

\* natural-compare: the code of the character at 0-based position pos,
\* 0 past the end of the string (String.alphabet is not set).
getCode(str, pos) ==
  LET code == IF pos < Len(str) THEN str[pos + 1] ELSE 0 IN
  IF code < 45 \/ code > 127 THEN code
  ELSE IF code < 46 THEN 65
  ELSE IF code < 48 THEN code - 1
  ELSE IF code < 58 THEN code + 18
  ELSE IF code < 65 THEN code - 11
  ELSE IF code < 91 THEN code + 11
  ELSE IF code < 97 THEN code - 37
  ELSE IF code < 123 THEN code + 5
  ELSE code - 63

\* natural-compare: the first position from pos on that holds no digit.
RECURSIVE digitsEnd(_, _)
digitsEnd(str, pos) ==
  IF getCode(str, pos) < 76 /\ getCode(str, pos) > 65
  THEN digitsEnd(str, pos + 1)
  ELSE pos

\* natural-compare: +str.slice(from, to), a run of decimal digits.
RECURSIVE sliceNumber(_, _, _)
sliceNumber(str, from, to) ==
  IF from >= to THEN 0
  ELSE sliceNumber(str, from, to - 1) * 10 + (str[to] - 48)

RECURSIVE naturalLoop(_, _, _, _)
naturalLoop(a, b, posA, posB) ==
  LET c1 == getCode(a, posA)
      c2 == getCode(b, posB)
      isNum == c1 < 76 /\ c2 < 76 /\ c1 > 66 /\ c2 > 66
      endA == digitsEnd(a, posA + 1)
      endB == digitsEnd(b, posB + 1)
      codeA == IF isNum THEN sliceNumber(a, posA, endA) ELSE c1
      codeB == IF isNum THEN sliceNumber(b, posB, endB) ELSE c2
      nextA == IF isNum THEN endA ELSE posA + 1
      nextB == IF isNum THEN endB ELSE posB + 1
  IN IF codeA # codeB THEN (IF codeA < codeB THEN -1 ELSE 1)
     ELSE IF codeB = 0 THEN 0
     ELSE naturalLoop(a, b, nextA, nextB)

naturalCompare(a, b) == IF a = b THEN 0 ELSE naturalLoop(a, b, 0, 0)

\* -------------------------------------------------------------- comparators
\* asc with its operands exchanged.
asc_Swapped(a, b) == StrLeq(b, a)

\* asc with < for <=.
asc_Strict(a, b) == StrLeq(a, b) /\ a # b

asc(a, b) == StrLeq(a, b)
ascI(a, b) == StrLeq(toLowerCase(a), toLowerCase(b))
ascN(a, b) == naturalCompare(a, b) <= 0
ascIN(a, b) == naturalCompare(toLowerCase(a), toLowerCase(b)) <= 0
\* desc without the exchange of its operands.
desc_SameDirection(a, b) == asc(a, b)

desc(a, b) == asc(b, a)
descI(a, b) == ascI(b, a)
descN(a, b) == ascN(b, a)
descIN(a, b) == ascIN(b, a)

OrderKeys == {"asc", "ascI", "ascN", "ascIN", "desc", "descI", "descN", "descIN"}

\* The names the keys of the model carry.
Strings == {StrLa, StrLb, StrB, StrA10, StrA2}

\* isValidOrders[key](a, b): the predicate of that name applied to two names.
isValidOrdersAt(key, a, b) ==
  CASE key = "asc" -> asc(a, b)
    [] key = "ascI" -> ascI(a, b)
    [] key = "ascN" -> ascN(a, b)
    [] key = "ascIN" -> ascIN(a, b)
    [] key = "desc" -> desc(a, b)
    [] key = "descI" -> descI(a, b)
    [] key = "descN" -> descN(a, b)
    [] key = "descIN" -> descIN(a, b)

\* The object isValidOrders: from the name of an order to its predicate,
\* a predicate being tabulated over the names of the model.
isValidOrders ==
  [key \in OrderKeys |->
    [a \in Strings |-> [b \in Strings |-> isValidOrdersAt(key, a, b)]]]

\* ----------------------------------------------------------------- options
\* context.options: [0] the order, [1] the options object.  A slot that is
\* absent is "undefined"; a boolean option is "true" or "false".
NoOptions ==
  [present |-> FALSE, caseSensitive |-> "undefined", natural |-> "undefined",
   allowLineSeparatedGroups |-> "undefined"]

DefaultOptions == [order |-> "undefined", options |-> NoOptions]

ContextOptions ==
  {DefaultOptions} \cup
  [order : {"asc", "desc"},
   options : [present : {TRUE}, caseSensitive : {"true", "false"},
              natural : {"true", "false"},
              allowLineSeparatedGroups : {"true", "false"}]]

order(o) == IF o.order = "undefined" THEN "asc" ELSE o.order
\* insensitive unless caseSensitive is true.
insensitive_UnlessTrue(o) == ~(o.options.present /\ o.options.caseSensitive = "true")

insensitive(o) == o.options.present /\ o.options.caseSensitive = "false"
natual(o) == o.options.present /\ o.options.natural = "true"
allowLineSeparatedGroups(o) ==
  o.options.present /\ o.options.allowLineSeparatedGroups = "true"

orderKey(o) ==
  order(o) \o (IF insensitive(o) THEN "I" ELSE "") \o (IF natual(o) THEN "N" ELSE "")

\* const isValidOrder = isValidOrders[...], applied to two names.
isValidOrder(o, a, b) == isValidOrders[orderKey(o)][a][b]

\* ------------------------------------------------------------------- nodes
\* A source span is <<n, k>>: k = 0 the member with id n, k > 0 its k-th
\* leading comment.  A text is a sequence of spans (the source text found
\* there) and newlines.
Newline == <<0, 0>>
NodeSpan(n) == <<n, 0>>
CommentSpan(n, k) == <<n, k>>

\* The keys the host hands over: what astUtils.getStaticPropertyName gives
\* for the member and the name of its key node, if the key node has one.
KeyShapes ==
  { [staticName |-> StrA10, name |-> StrA10],   \* a10: 1
    [staticName |-> NULL, name |-> StrB],       \* [B]: 1
    [staticName |-> NULL, name |-> NULL] }      \* [f()]: 1

NullNode ==
  [id |-> 0, type |-> "null", parent |-> "null", staticName |-> NULL,
   key |-> [name |-> NULL, loc |-> <<0, 0, "key">>], commentsBefore |-> <<>>]

\* A member node as the parser builds it: k leading comments.
MkNode(id, type, parent, shape, k) ==
  [id |-> id, type |-> type, parent |-> parent, staticName |-> shape.staticName,
   key |-> [name |-> shape.name, loc |-> <<id, 0, "key">>],
   commentsBefore |-> [i \in 1..k |-> CommentSpan(id, i)]]

\* sourceCode.getText of a node or comment, sourceCode.getCommentsBefore.
getText(span) == <<span>>
getCommentsBefore(node) == node.commentsBefore

\* getPropertyName without the name of the key node.
getPropertyName_StaticOnly(node) == node.staticName

getPropertyName(node) ==
  LET staticName == node.staticName IN
  IF staticName # NULL THEN staticName
  ELSE IF node.key.name # NULL /\ node.key.name # EmptyStr THEN node.key.name
  ELSE NULL

\* ------------------------------------------------------------------ tokens
\* What sourceCode.getTokensBetween(prevNode, node, {includeComments}) and
\* the nodes' loc give at one visit.  Lines are counted from the line on
\* which the previous member ends; the code reads differences only.
Tok(type, from, to) ==
  [type |-> type, loc |-> [start |-> [line |-> from], end |-> [line |-> to]]]

MkLayout(prevEnd, tokens, nodeStart) ==
  [prevNode |-> [loc |-> [end |-> [line |-> prevEnd]]],
   tokens |-> tokens,
   node |-> [loc |-> [start |-> [line |-> nodeStart]]]]

\* The first member of a literal: no previous node, no tokens asked for.
NoLayout == MkLayout(1, <<>>, 1)

\* An entry of a pattern: the line after a comma.
PatternLayout == MkLayout(1, <<Tok("Punctuator", 1, 1)>>, 2)

Layouts ==
  { MkLayout(1, <<Tok("Punctuator", 1, 1)>>, 2),    \* a: 1,|b: 2
    MkLayout(1, <<Tok("Punctuator", 1, 1)>>, 3),    \* a: 1,||b: 2
    MkLayout(1, <<Tok("Punctuator", 3, 3)>>, 3),    \* a: 1||, b: 2
    MkLayout(1, <<Tok("Punctuator", 1, 1), Tok("Block", 3, 4)>>, 5),
    MkLayout(1, <<Tok("Punctuator", 1, 1), Tok("Line", 1, 1)>>, 2) }   \* a: 1, // c|b: 2

\* The comments directly before the node among the tokens before it.
RECURSIVE TrailingComments(_)
TrailingComments(tokens) ==
  IF tokens = <<>> \/ tokens[Len(tokens)].type \notin {"Block", "Line"} THEN 0
  ELSE 1 + TrailingComments(SubSeq(tokens, 1, Len(tokens) - 1))

\* ------------------------------------------------------------------ frames
Truthy(v) == v = "true"

\* ObjectExpression(): the frame has no prevBlankLine property yet.
NewFrame == [prevName |-> NULL, prevNode |-> NullNode, prevBlankLine |-> "undefined"]

\* The blank-line result without the check between the previous node and
\* the first token.
isBlankLineBetweenNodes_NoFirstCheck(frame, layout) ==
  LET tokens == layout.tokens
      between == \E index \in 2..Len(tokens) :
                   tokens[index].loc.start.line - tokens[index - 1].loc.end.line > 1
      afterLast == layout.node.loc.start.line - tokens[Len(tokens)].loc.end.line > 1
  IN IF frame.prevNode = NullNode THEN Truthy(frame.prevBlankLine)
     ELSE Truthy(frame.prevBlankLine) \/ between \/ afterLast

\* Lines 165-195: the value of isBlankLineBetweenNodes after the block,
\* "undefined", "false" or "true", or "TypeError" when line 183 reads the
\* loc of the last token of an empty array.  tokens is null (and the block
\* is skipped) only without a previous node: an array is truthy even empty.
BlankLineBlock(frame, layout) ==
  LET tokens == layout.tokens
      carried == Truthy(frame.prevBlankLine)
      between == \E index \in 2..Len(tokens) :
                   tokens[index].loc.start.line - tokens[index - 1].loc.end.line > 1
      afterLast == layout.node.loc.start.line - tokens[Len(tokens)].loc.end.line > 1
      beforeFirst == tokens[1].loc.start.line - layout.prevNode.loc.end.line > 1
  IN IF frame.prevNode = NullNode THEN frame.prevBlankLine
     ELSE IF carried \/ between THEN "true"
     ELSE IF tokens = <<>> THEN "TypeError"
     ELSE IF afterLast \/ beforeFirst THEN "true"
     ELSE frame.prevBlankLine

\* The blank-line result of one Property visit, as line 208 reads it.
isBlankLineBetweenNodes(frame, layout) == Truthy(BlankLineBlock(frame, layout))

\* fix(fixer): moveProperty(fromNode, toNode), the operations it pushes.
moveProperty(fromNode, toNode) ==
  LET thisComments == getCommentsBefore(fromNode)
      perComment(c) ==
        << [op |-> "insertTextBefore", span |-> NodeSpan(toNode.id),
            text |-> getText(c) \o <<Newline>>],
           [op |-> "remove", span |-> c, text |-> <<>>] >>
      RECURSIVE all(_)
      all(i) == IF i > Len(thisComments) THEN <<>>
                ELSE perComment(thisComments[i]) \o all(i + 1)
  IN all(1) \o << [op |-> "replaceText", span |-> NodeSpan(toNode.id),
                   text |-> getText(NodeSpan(fromNode.id))] >>

\* fix that moves the current entry only.
fix_OneWay(node, prevNode) == moveProperty(node, prevNode)

fix(node, prevNode) == moveProperty(node, prevNode) \o moveProperty(prevNode, node)

\* context.report({...}) of line 214.
MkReport(o, node, prevNode, thisName, prevName) ==
  [node |-> node.id,
   loc |-> node.key.loc,
   data |-> [thisName |-> thisName, prevName |-> prevName, order |-> order(o),
             insensitive |-> IF insensitive(o) THEN "insensitive " ELSE "",
             natual |-> IF natual(o) THEN "natural " ELSE ""],
   fix |-> fix(node, prevNode)]

\* The Property visit with prevName assigned whether or not the entry has
\* a name.
PropertyVisit_AlwaysSetsPrevName(o, frame, node, layout) ==
  LET prevName == frame.prevName
      prevNode == frame.prevNode
      thisName == getPropertyName(node)
      blank == isBlankLineBetweenNodes(frame, layout)
      f2 == [frame EXCEPT !.prevName = thisName, !.prevNode = node]
  IN IF prevName = NULL \/ thisName = NULL
     THEN [frame |-> f2, reports |-> <<>>]
     ELSE IF allowLineSeparatedGroups(o) /\ blank
     THEN [frame |-> [f2 EXCEPT !.prevBlankLine = "false"], reports |-> <<>>]
     ELSE IF ~isValidOrder(o, prevName, thisName)
     THEN [frame |-> f2, reports |-> <<MkReport(o, node, prevNode, thisName, prevName)>>]
     ELSE [frame |-> f2, reports |-> <<>>]

\* The Property visit that leaves the frame alone at an entry without a
\* name.
PropertyVisit_SkipsUnnamed(o, frame, node, layout) ==
  LET prevName == frame.prevName
      prevNode == frame.prevNode
      thisName == getPropertyName(node)
      blank == isBlankLineBetweenNodes(frame, layout)
      f2 == [frame EXCEPT !.prevName = thisName, !.prevNode = node]
  IN IF thisName = NULL
     THEN [frame |-> frame, reports |-> <<>>]
     ELSE IF prevName = NULL
     THEN [frame |-> f2, reports |-> <<>>]
     ELSE IF allowLineSeparatedGroups(o) /\ blank
     THEN [frame |-> [f2 EXCEPT !.prevBlankLine = "false"], reports |-> <<>>]
     ELSE IF ~isValidOrder(o, prevName, thisName)
     THEN [frame |-> f2, reports |-> <<MkReport(o, node, prevNode, thisName, prevName)>>]
     ELSE [frame |-> f2, reports |-> <<>>]

\* Property(node) for a member of an object literal: the frame it leaves
\* and the reports it makes.
PropertyVisit(o, frame, node, layout) ==
  LET prevName == frame.prevName
      prevNode == frame.prevNode
      thisName == getPropertyName(node)
      blank == isBlankLineBetweenNodes(frame, layout)
      f1 == [frame EXCEPT !.prevNode = node]
      f2 == IF thisName # NULL
            THEN [f1 EXCEPT !.prevName = thisName, !.prevNode = node]
            ELSE f1
  IN IF prevName = NULL \/ thisName = NULL
     THEN [frame |-> f2, reports |-> <<>>]
     ELSE IF allowLineSeparatedGroups(o) /\ blank
     THEN [frame |-> [f2 EXCEPT !.prevBlankLine =
                                   IF thisName = NULL THEN "true" ELSE "false"],
           reports |-> <<>>]
     ELSE IF ~isValidOrder(o, prevName, thisName)
     THEN [frame |-> f2, reports |-> <<MkReport(o, node, prevNode, thisName, prevName)>>]
     ELSE [frame |-> f2, reports |-> <<>>]

\* A spread handler that leaves the frame alone, and one that starts the
\* frame afresh.
SpreadVisit_KeepsPrevName(frame) == frame
SpreadVisit_ResetsFrame(frame) == NewFrame

\* Line 128: what the spread handler does to the frame of its literal.
SpreadVisit(frame) == [frame EXCEPT !.prevName = NULL]

Top(s) == s[Len(s)]
SetTop(s, x) == [s EXCEPT ![Len(s)] = x]

\* An enter handler whose new frame starts as a copy of the enclosing one.
ObjectExpression_CopiesFrame(s) ==
  IF s = <<>> THEN Append(s, NewFrame) ELSE Append(s, Top(s))

\* The handlers ObjectExpression() and "ObjectExpression:exit"(): the stack
\* is the chain of frames from the outermost (first) to the current (last).
ObjectExpression(s) == Append(s, NewFrame)
\* An exit handler that forgets every frame.
ObjectExpressionExit_Clears(s) == <<>>

ObjectExpressionExit(s) == SubSeq(s, 1, Len(s) - 1)

\* A spread handler that tests for the wrong parent.
SpreadElement_WrongParent(s, node) ==
  IF node.parent = "ObjectPattern" THEN SetTop(s, SpreadVisit(Top(s))) ELSE s

\* The handler SpreadElement(node): the stack it leaves.
SpreadElement(s, node) ==
  IF node.parent = "ObjectExpression" THEN SetTop(s, SpreadVisit(Top(s))) ELSE s

\* A Property handler without the test for a pattern.
Property_NoPatternCheck(o, s, node, layout) ==
  IF s = <<>> THEN [stack |-> s, reports |-> <<>>]
  ELSE LET r == PropertyVisit(o, Top(s), node, layout)
       IN [stack |-> SetTop(s, r.frame), reports |-> r.reports]

\* The handler Property(node): the stack it leaves and the reports it makes.
Property(o, s, node, layout) ==
  IF node.parent = "ObjectPattern" THEN [stack |-> s, reports |-> <<>>]
  ELSE LET r == PropertyVisit(o, Top(s), node, layout)
       IN [stack |-> SetTop(s, r.frame), reports |-> r.reports]

\* More than one line break between two neighbours among: the end of the
\* previous member, the tokens and comments in order, the start of the entry.
QualifyingBlank(layout) ==
  LET n == Len(layout.tokens)
      ends == <<layout.prevNode.loc.end.line>> \o [i \in 1..n |-> layout.tokens[i].loc.end.line]
      starts == [i \in 1..n |-> layout.tokens[i].loc.start.line] \o <<layout.node.loc.start.line>>
  IN n > 0 /\ \E i \in 1..(n + 1) : starts[i] - ends[i] > 1

\* --------------------------------------------------------------- traversal
\* hist[i] lists the members visited so far in the literal of stack[i],
\* each with whether a qualifying blank line lay before it: it records the
\* traversal, the rule does not read it.
NoneApplied == [mode |-> "none", reports |-> <<>>]

\* No comparison asked of the comparator on its own.
NoComparison == [a |-> NULL, b |-> NULL, valid |-> "none"]

\* getPropertyName not called on its own.
NoNameCall == [kind |-> "none", node |-> NullNode, called |-> FALSE, result |-> NULL]

\* No blank-line check asked for on its own.
NoBlankLineCheck == [frame |-> NewFrame, layout |-> NoLayout, result |-> "none"]

NoEvent == [type |-> "none", node |-> NullNode, layout |-> NoLayout]

Init ==
  /\ options \in ContextOptions
  /\ stack = <<>>
  /\ reports = <<>>
  /\ hist = <<>>
  /\ ev = NoEvent
  /\ nextId = 1
  /\ lit = <<>>
  /\ phase = "idle"
  /\ found = <<>>
  /\ before = <<>>
  /\ applied = NoneApplied
  /\ cmp = NoComparison
  /\ blk = NoBlankLineCheck
  /\ gpn = NoNameCall

EnterObjectExpression ==
  /\ Len(stack) < MaxDepth
  /\ stack' = ObjectExpression(stack)
  /\ hist' = Append(hist, <<>>)
  /\ ev' = [type |-> "ObjectExpression", node |-> NullNode, layout |-> NoLayout]
  /\ UNCHANGED <<options, reports, nextId>>
  /\ UNCHANGED fixVars

ExitObjectExpression ==
  /\ Len(stack) > 0
  /\ stack' = ObjectExpressionExit(stack)
  /\ hist' = SubSeq(hist, 1, Len(hist) - 1)
  /\ ev' = [type |-> "ObjectExpression:exit", node |-> NullNode, layout |-> NoLayout]
  /\ UNCHANGED <<options, reports, nextId>>
  /\ UNCHANGED fixVars

\* A spread member of the literal being visited.
SpreadElementInObject ==
  /\ nextId <= MaxNodes
  /\ Len(stack) > 0
  /\ LET node == MkNode(nextId, "SpreadElement", "ObjectExpression",
                        [staticName |-> NULL, name |-> NULL], 0)
     IN /\ stack' = SpreadElement(stack, node)
        /\ hist' = SetTop(hist, Append(Top(hist),
                      [id |-> node.id, type |-> "SpreadElement", name |-> NULL,
                       blank |-> FALSE]))
        /\ ev' = [type |-> "SpreadElement", node |-> node, layout |-> NoLayout]
  /\ nextId' = nextId + 1
  /\ UNCHANGED <<options, reports>>
  /\ UNCHANGED fixVars

\* A spread in a call or an array: the handler's condition fails.
SpreadElementElsewhere ==
  /\ nextId <= MaxNodes
  /\ LET node == MkNode(nextId, "SpreadElement", "CallExpression",
                        [staticName |-> NULL, name |-> NULL], 0)
     IN /\ stack' = SpreadElement(stack, node)
        /\ ev' = [type |-> "SpreadElement", node |-> node, layout |-> NoLayout]
  /\ nextId' = nextId + 1
  /\ UNCHANGED <<options, reports, hist>>
  /\ UNCHANGED fixVars

\* An entry of a destructuring pattern: the handler returns at once.
PropertyInPattern ==
  /\ nextId <= MaxNodes
  /\ \E shape \in KeyShapes :
       LET node == MkNode(nextId, "Property", "ObjectPattern", shape, 0)
           r == Property(options, stack, node, PatternLayout)
       IN /\ stack' = r.stack
          /\ reports' = reports \o r.reports
          /\ ev' = [type |-> "Property", node |-> node, layout |-> PatternLayout]
  /\ nextId' = nextId + 1
  /\ UNCHANGED <<options, hist>>
  /\ UNCHANGED fixVars

\* An entry of the literal being visited.
PropertyInObject ==
  /\ nextId <= MaxNodes
  /\ Len(stack) > 0
  /\ \E shape \in KeyShapes :
     \E layout \in (IF Top(stack).prevNode = NullNode THEN {NoLayout} ELSE Layouts) :
       LET node == MkNode(nextId, "Property", "ObjectExpression", shape,
                          TrailingComments(layout.tokens))
           r == Property(options, stack, node, layout)
       IN /\ stack' = r.stack
          /\ reports' = reports \o r.reports
          /\ hist' = SetTop(hist, Append(Top(hist),
                        [id |-> node.id, type |-> "Property",
                         name |-> getPropertyName(node),
                         blank |-> QualifyingBlank(layout)]))
          /\ ev' = [type |-> "Property", node |-> node, layout |-> layout]
  /\ nextId' = nextId + 1
  /\ UNCHANGED options
  /\ UNCHANGED fixVars

Next ==
  \/ EnterObjectExpression
  \/ ExitObjectExpression
  \/ SpreadElementInObject
  \/ SpreadElementElsewhere
  \/ PropertyInPattern
  \/ PropertyInObject

Spec == Init /\ [][Next]_vars

\* ---------------------------------------------------------------- fix loop
\* A literal as source text: one slot per member, in order.  val tells the
\* members apart; comments are the leading comments of the slot.
FixNames == Strings

MemberKinds ==
  [type : {"Property"}, staticName : FixNames, name : {NULL}] \cup
  { [type |-> "Property", staticName |-> NULL, name |-> NULL],
    [type |-> "SpreadElement", staticName |-> NULL, name |-> NULL] }

Slot(kind, i) ==
  [type |-> kind.type, staticName |-> kind.staticName, name |-> kind.name,
   val |-> i, comments |-> <<>>]

Literals ==
  UNION { { [i \in 1..n |-> Slot(f[i], i)] : f \in [1..n -> MemberKinds] } :
          n \in 1..MaxLen }

\* The node the parser builds for slot i.
ParseMember(l, i) ==
  MkNode(i, l[i].type, "ObjectExpression",
         [staticName |-> l[i].staticName, name |-> l[i].name], Len(l[i].comments))

\* Members written on one line: a comma between two of them.
OneLineLayout == MkLayout(1, <<Tok("Punctuator", 1, 1)>>, 1)

\* The source text a text of an operation stands for: the member of a slot,
\* or a leading comment of it.
ResolveMember(l, text) == l[text[1][1]]
ResolveComment(l, text) == l[text[1][1]].comments[text[1][2]]

\* The patch applier on the operations of one fix: a slot's member is the
\* text that replaces it, its leading comments are those not removed and
\* then those inserted before it.
ApplyEdit(l, ops) ==
  LET replaced(j) == SelectSeq(ops, LAMBDA op : op.op = "replaceText" /\ op.span = NodeSpan(j))
      inserted(j) == SelectSeq(ops, LAMBDA op : op.op = "insertTextBefore" /\ op.span = NodeSpan(j))
      removed(j, k) == \E x \in 1..Len(ops) : ops[x].op = "remove" /\ ops[x].span = CommentSpan(j, k)
      RECURSIVE kept(_, _)
      kept(j, k) == IF k > Len(l[j].comments) THEN <<>>
                    ELSE (IF removed(j, k) THEN <<>> ELSE <<l[j].comments[k]>>) \o kept(j, k + 1)
      member(j) == IF replaced(j) = <<>> THEN l[j] ELSE ResolveMember(l, replaced(j)[1].text)
  IN [j \in 1..Len(l) |->
        [member(j) EXCEPT !.comments =
           kept(j, 1) \o [x \in 1..Len(inserted(j)) |-> ResolveComment(l, inserted(j)[x].text)]]]

\* The two slots whose members a fix replaces.
FixTargets(ops) ==
  { ops[x].span[1] : x \in { y \in 1..Len(ops) : ops[y].op = "replaceText" } }

InitFix ==
  /\ options \in ContextOptions
  /\ lit \in Literals
  /\ phase = "parsed"
  /\ found = <<>>
  /\ before = <<>>
  /\ applied = NoneApplied
  /\ cmp = NoComparison
  /\ blk = NoBlankLineCheck
  /\ gpn = NoNameCall
  /\ stack = <<>>
  /\ reports = <<>>
  /\ hist = <<>>
  /\ ev = NoEvent
  /\ nextId = 1

\* One run of the rule over the literal, visit by visit: ObjectExpression,
\* the members in order, ObjectExpression:exit.  nextId is the member to
\* visit next, reports collects what the pass reports.
PassEnter ==
  /\ phase = "parsed"
  /\ stack' = ObjectExpression(stack)
  /\ reports' = <<>>
  /\ nextId' = 1
  /\ phase' = "visiting"
  /\ UNCHANGED <<options, hist, ev, lit, found, before, applied, cmp, blk, gpn>>

PassMember ==
  /\ phase = "visiting"
  /\ nextId <= Len(lit)
  /\ LET node == ParseMember(lit, nextId)
         layout == IF Top(stack).prevNode = NullNode THEN NoLayout ELSE OneLineLayout
     IN IF node.type = "SpreadElement"
        THEN /\ stack' = SpreadElement(stack, node)
             /\ reports' = reports
        ELSE /\ stack' = Property(options, stack, node, layout).stack
             /\ reports' = reports \o Property(options, stack, node, layout).reports
  /\ nextId' = nextId + 1
  /\ UNCHANGED <<options, hist, ev, lit, phase, found, before, applied, cmp, blk, gpn>>

PassExit ==
  /\ phase = "visiting"
  /\ nextId > Len(lit)
  /\ stack' = ObjectExpressionExit(stack)
  /\ found' = reports
  /\ phase' = "reported"
  /\ UNCHANGED <<options, reports, hist, ev, nextId, lit, before, applied, cmp, blk, gpn>>

\* The Edit of one reported violation, applied to the text.
ApplyOneFix ==
  /\ phase = "reported"
  /\ \E i \in 1..Len(found) :
       /\ lit' = ApplyEdit(lit, found[i].fix)
       /\ applied' = [mode |-> "one", reports |-> <<found[i]>>]
  /\ before' = lit
  /\ phase' = "parsed"
  /\ found' = <<>>
  /\ UNCHANGED <<options, cmp, blk, gpn>>
  /\ UNCHANGED travVars

\* Every Edit of the pass in sequence, each exchanging the positions its
\* two entries have by then.
PositionOf(l, v) == CHOOSE j \in 1..Len(l) : l[j].val = v

ExchangeEntries(l, v, w) ==
  LET p == PositionOf(l, v)
      q == PositionOf(l, w)
  IN [l EXCEPT ![p] = l[q], ![q] = l[p]]

RECURSIVE ExchangeAll(_, _, _, _)
ExchangeAll(src, l, rs, i) ==
  IF i > Len(rs) THEN l
  ELSE LET t == FixTargets(rs[i].fix)
           p == CHOOSE x \in t : \A y \in t : x <= y
           q == CHOOSE x \in t : \A y \in t : y <= x
       IN ExchangeAll(src, ExchangeEntries(l, src[p].val, src[q].val), rs, i + 1)

ApplyEveryFix ==
  /\ phase = "reported"
  /\ found # <<>>
  /\ lit' = ExchangeAll(lit, lit, found, 1)
  /\ applied' = [mode |-> "every", reports |-> found]
  /\ before' = lit
  /\ phase' = "parsed"
  /\ found' = <<>>
  /\ UNCHANGED <<options, cmp, blk, gpn>>
  /\ UNCHANGED travVars

NextFix ==
  \/ PassEnter
  \/ PassMember
  \/ PassExit
  \/ ApplyOneFix
  \/ ApplyEveryFix

SpecFix == InitFix /\ [][NextFix]_vars

\* Repeated invocation: a pass, the Edit of one violation, a pass, ...
NextConverge ==
  \/ PassEnter
  \/ PassMember
  \/ PassExit
  \/ ApplyOneFix

\* A pass runs to its end, and the invocation is repeated while a violation
\* is left to fix.
InitConverge == InitFix /\ ~allowLineSeparatedGroups(options)

SpecConverge ==
  /\ InitConverge
  /\ [][NextConverge]_vars
  /\ WF_vars(PassEnter) /\ WF_vars(PassMember) /\ WF_vars(PassExit)
  /\ WF_vars(ApplyOneFix)

\* ------------------------------------------------------- comparator alone
\* The comparator selected by a configuration, applied to two names: the
\* names are the names of the model and every string of at most MaxStrLen
\* characters among B, a, 1 and 2.
MaxStrLen == 2

Alphabet == {66, 97, 49, 50}

RECURSIVE StringsUpTo(_)
StringsUpTo(n) ==
  IF n = 0 THEN {<<>>}
  ELSE LET shorter == StringsUpTo(n - 1)
       IN shorter \cup { Append(x, c) : x \in { y \in shorter : Len(y) = n - 1 },
                                        c \in Alphabet }

Names == Strings \cup StringsUpTo(MaxStrLen)

\* Every configuration the schema accepts: no element, the order alone, or
\* the order and an object whose three properties are each absent or a
\* boolean.
SchemaOptions ==
  {DefaultOptions} \cup
  [order : {"asc", "desc"},
   options : {NoOptions} \cup
             [present : {TRUE}, caseSensitive : {"undefined", "true", "false"},
              natural : {"undefined", "true", "false"},
              allowLineSeparatedGroups : {"undefined", "true", "false"}]]

InitOrder ==
  /\ options \in SchemaOptions
  /\ cmp \in [a : Names, b : Names, valid : {"none"}]
  /\ stack = <<>>
  /\ reports = <<>>
  /\ hist = <<>>
  /\ ev = NoEvent
  /\ nextId = 1
  /\ lit = <<>>
  /\ phase = "idle"
  /\ found = <<>>
  /\ before = <<>>
  /\ applied = NoneApplied
  /\ blk = NoBlankLineCheck
  /\ gpn = NoNameCall

\* Line 213: isValidOrder(prevName, thisName), the selected predicate called.
CallIsValidOrder ==
  /\ cmp.valid = "none"
  /\ orderKey(options) \in OrderKeys
  /\ cmp' = [cmp EXCEPT !.valid =
               IF isValidOrdersAt(orderKey(options), cmp.a, cmp.b)
               THEN "true" ELSE "false"]
  /\ UNCHANGED <<options, stack, reports, hist, ev, nextId, lit, phase, found,
                 before, applied, blk, gpn>>

NextOrder == CallIsValidOrder

SpecOrder == InitOrder /\ [][NextOrder]_vars

\* ------------------------------------------------------ blank lines alone
\* Lines 165-195 on their own: the frame's flag and what the host answers
\* for the tokens and comments between the previous node and the entry.
\* At most MaxTokens of them; a token starts 0, 1 or 2 line breaks after
\* what precedes it, and a comment may end on the line after its first.
MaxTokens == 2

Gaps == {0, 1, 2}
Heights == {0, 1}

RECURSIVE EndLine(_, _, _)
EndLine(g, h, i) == IF i = 0 THEN 1 ELSE EndLine(g, h, i - 1) + g[i] + h[i]

LayoutOf(n, g, h, last) ==
  MkLayout(1,
           [i \in 1..n |-> Tok(IF h[i] = 0 THEN "Punctuator" ELSE "Block",
                               EndLine(g, h, i - 1) + g[i], EndLine(g, h, i))],
           EndLine(g, h, n) + last)

\* The answers of sourceCode.getTokensBetween, the empty array among them.
HostLayouts ==
  UNION { { LayoutOf(n, g, h, last) :
              g \in [1..n -> Gaps], h \in [1..n -> Heights], last \in Gaps } :
          n \in 0..MaxTokens }

\* The previous node of the frame, when there is one.
PrevEntry ==
  MkNode(1, "Property", "ObjectExpression", [staticName |-> StrA10, name |-> StrA10], 0)

\* A frame's prevBlankLine is undefined, false or true; without a previous
\* node no tokens are asked for.
BlankLineInputs ==
  { [frame |-> [NewFrame EXCEPT !.prevBlankLine = f, !.prevNode = x[1]],
     layout |-> x[2], result |-> "none"] :
      f \in {"undefined", "false", "true"},
      x \in ({PrevEntry} \X HostLayouts) \cup {<<NullNode, NoLayout>>} }

InitBlank ==
  /\ options = DefaultOptions
  /\ blk \in BlankLineInputs
  /\ cmp = NoComparison
  /\ gpn = NoNameCall
  /\ stack = <<>>
  /\ reports = <<>>
  /\ hist = <<>>
  /\ ev = NoEvent
  /\ nextId = 1
  /\ lit = <<>>
  /\ phase = "idle"
  /\ found = <<>>
  /\ before = <<>>
  /\ applied = NoneApplied

\* Lines 165-195 run on the frame and the host's answer.
BlankLineCheck ==
  /\ blk.result = "none"
  /\ blk' = [blk EXCEPT !.result = BlankLineBlock(blk.frame, blk.layout)]
  /\ UNCHANGED <<options, stack, reports, hist, ev, nextId, lit, phase, found,
                 before, applied, cmp, gpn>>

NextBlank == BlankLineCheck

SpecBlank == InitBlank /\ [][NextBlank]_vars

\* ------------------------------------------------------------- name alone
\* getPropertyName on its own, on the keys a parser builds: an identifier
\* (the host resolves its name), a string or number literal, computed or
\* not (the host resolves its value, which may be the empty string, and
\* the key node has no name), an identifier in computed syntax (the host
\* resolves nothing) and any other computed expression.
NameInputs ==
  { [kind |-> "Identifier", staticName |-> n, name |-> n] : n \in Names \ {EmptyStr} }
  \cup { [kind |-> "Literal", staticName |-> n, name |-> NULL] : n \in Names }
  \cup { [kind |-> "[Identifier]", staticName |-> NULL, name |-> n] :
           n \in Names \ {EmptyStr} }
  \cup { [kind |-> "[CallExpression]", staticName |-> NULL, name |-> NULL] }

InitName ==
  /\ options = DefaultOptions
  /\ gpn \in { [kind |-> x.kind,
                node |-> MkNode(1, "Property", "ObjectExpression",
                                [staticName |-> x.staticName, name |-> x.name], 0),
                called |-> FALSE, result |-> NULL] : x \in NameInputs }
  /\ cmp = NoComparison
  /\ blk = NoBlankLineCheck
  /\ stack = <<>>
  /\ reports = <<>>
  /\ hist = <<>>
  /\ ev = NoEvent
  /\ nextId = 1
  /\ lit = <<>>
  /\ phase = "idle"
  /\ found = <<>>
  /\ before = <<>>
  /\ applied = NoneApplied

\* Line 156: const thisName = getPropertyName(node).
CallGetPropertyName ==
  /\ ~gpn.called
  /\ gpn' = [gpn EXCEPT !.called = TRUE, !.result = getPropertyName(gpn.node)]
  /\ UNCHANGED <<options, stack, reports, hist, ev, nextId, lit, phase, found,
                 before, applied, cmp, blk>>

NextName == CallGetPropertyName

SpecName == InitName /\ [][NextName]_vars

\* ------------------------------------------------------------ vocabulary
Front(h) == SubSeq(h, 1, Len(h) - 1)

IsNamed(m) == m.type = "Property" /\ m.name # NULL
IsSpread(m) == m.type = "SpreadElement"

\* The most recently visited named entry of h with no spread after it
\* (its index, 0 if there is none).
Supplier(h) ==
  LET ok == { i \in 1..Len(h) : IsNamed(h[i]) /\ \A j \in (i + 1)..Len(h) : ~IsSpread(h[j]) }
  IN IF ok = {} THEN 0 ELSE CHOOSE i \in ok : \A j \in ok : j <= i

\* The state right after the visit of an entry of a literal.
AfterProperty == ev.type = "Property" /\ ev.node.parent = "ObjectExpression"

ReportsAt(id) == { i \in 1..Len(reports) : reports[i].node = id }

\* ---------------------------------------------------------------------- C1
\* C1: with allowLineSeparatedGroups disabled, the visit of an entry B of a
\* literal reports a violation at B exactly when B has a name, a named entry
\* A was visited earlier in the literal with no spread after it, and the
\* active comparator rejects (name of A, name of B), A being the most recent
\* such entry; no entry is reported twice; blank lines play no part.
C1_ViolationIffComparatorRejects ==
  ~allowLineSeparatedGroups(options) =>
    /\ \A i, j \in 1..Len(reports) : reports[i].node = reports[j].node => i = j
    /\ AfterProperty =>
         LET h == Top(hist)
             b == h[Len(h)]
             a == Supplier(Front(h))
         IN (ReportsAt(ev.node.id) # {}) <=>
              (b.name # NULL /\ a # 0 /\ ~isValidOrder(options, h[a].name, b.name))

C1_Witness ==
  /\ ~allowLineSeparatedGroups(options)
  /\ AfterProperty
  /\ ReportsAt(ev.node.id) # {}
  /\ QualifyingBlank(ev.layout)
  /\ Len(Top(hist)) = 3
  /\ ~IsNamed(Top(hist)[2])

\* ---------------------------------------------------------------------- C2
\* C2: the two entries a reported violation's Edit exchanges are the entry
\* that supplied prevName and the current entry, also when an unnamed entry
\* was visited between the two.
C2_EditExchangesComparedEntries ==
  AfterProperty =>
    \A i \in ReportsAt(ev.node.id) :
      LET h == Top(hist) IN
      FixTargets(reports[i].fix) = {ev.node.id, h[Supplier(Front(h))].id}

\* ---------------------------------------------------------------------- C4
\* C4: with allowLineSeparatedGroups enabled, for named A then named B,
\* adjacent members of one literal, a violation is reported at B exactly
\* when the active comparator rejects (name of A, name of B) and no
\* qualifying blank line lies between A and B.
AdjacentNamedPair ==
  /\ AfterProperty
  /\ Len(Top(hist)) >= 2
  /\ IsNamed(Top(hist)[Len(Top(hist)) - 1])
  /\ IsNamed(Top(hist)[Len(Top(hist))])

C4_GroupsSkipOnlyAcrossBlankLine ==
  (allowLineSeparatedGroups(options) /\ AdjacentNamedPair) =>
    LET h == Top(hist)
        a == h[Len(h) - 1]
        b == h[Len(h)]
    IN (ReportsAt(ev.node.id) # {}) <=>
         (~isValidOrder(options, a.name, b.name) /\ ~QualifyingBlank(ev.layout))

C4_Witness ==
  /\ allowLineSeparatedGroups(options)
  /\ AdjacentNamedPair
  /\ ~isValidOrder(options, Top(hist)[Len(Top(hist)) - 1].name, Top(hist)[Len(Top(hist))].name)
  /\ QualifyingBlank(ev.layout)
  /\ ReportsAt(ev.node.id) = {}

\* ---------------------------------------------------------------------- C5
\* C5: with allowLineSeparatedGroups enabled, a qualifying blank line
\* directly before an entry leaves the frame's carried flag true when the
\* entry is unnamed and not true when it is named; and a named entry that
\* follows such an unnamed entry is not reported, though no blank line lies
\* directly before it.
C5_CarriedBlankLineFlag ==
  (allowLineSeparatedGroups(options) /\ AfterProperty) =>
    LET h == Top(hist)
        n == Len(h)
    IN /\ QualifyingBlank(ev.layout) =>
            (Truthy(Top(stack).prevBlankLine) <=> h[n].name = NULL)
       /\ (/\ n >= 3
           /\ IsNamed(h[n - 2])
           /\ h[n - 1].type = "Property" /\ h[n - 1].name = NULL /\ h[n - 1].blank
           /\ IsNamed(h[n])
           /\ ~QualifyingBlank(ev.layout)) => ReportsAt(ev.node.id) = {}

\* ---------------------------------------------------------------------- C6
\* C6: the visit of a spread whose parent is a literal sets the current
\* frame's previous-name to unset and changes nothing else; a spread with
\* another parent changes nothing; and an entry visited right after a
\* spread of its literal is never reported.
C6_SpreadStep ==
  (ev'.type = "SpreadElement") =>
    /\ reports' = reports
    /\ IF ev'.node.parent = "ObjectExpression"
       THEN /\ Len(stack') = Len(stack)
            /\ \A i \in 1..(Len(stack) - 1) : stack'[i] = stack[i]
            /\ Top(stack').prevName = NULL
            /\ Top(stack').prevNode = Top(stack).prevNode
            /\ Top(stack').prevBlankLine = Top(stack).prevBlankLine
       ELSE stack' = stack

C6_NoReportAfterSpread ==
  (AfterProperty /\ Len(Top(hist)) >= 2 /\ IsSpread(Top(hist)[Len(Top(hist)) - 1])) =>
    ReportsAt(ev.node.id) = {}

C6_SpreadResetsOnlyPrevName == [][C6_SpreadStep]_vars /\ []C6_NoReportAfterSpread

C6_Witness ==
  /\ AfterProperty
  /\ Len(Top(hist)) = 3
  /\ IsNamed(Top(hist)[1]) /\ IsSpread(Top(hist)[2]) /\ IsNamed(Top(hist)[3])
  /\ ~isValidOrder(options, Top(hist)[1].name, Top(hist)[3].name)
  /\ reports = <<>>

\* ---------------------------------------------------------------------- C8
\* C8: the visit of an entry of a destructuring pattern reports nothing and
\* leaves the scope stack and every frame as they were, for every
\* configuration, also when the pattern is nested in a literal.
C8_PatternStep ==
  (ev'.type = "Property" /\ ev'.node.parent = "ObjectPattern") =>
    (stack' = stack /\ reports' = reports)

C8_PatternEntriesSkipped == [][C8_PatternStep]_vars

C8_Witness ==
  /\ ev.type = "Property" /\ ev.node.parent = "ObjectPattern"
  /\ Len(stack) > 0
  /\ Top(stack).prevName # NULL
  /\ getPropertyName(ev.node) # NULL
  /\ ~isValidOrder(options, Top(stack).prevName, getPropertyName(ev.node))
  /\ reports = <<>>

\* -------------------------------------------------------- fix vocabulary
NameOf(l, i) == getPropertyName(ParseMember(l, i))

SlotNamed(l, i) == l[i].type = "Property" /\ NameOf(l, i) # NULL

AllNamed(l) == \A i \in 1..Len(l) : SlotNamed(l, i)

\* Two named entries the active comparator rejects in this order.
RejectedPair(l) ==
  /\ Len(l) = 2
  /\ AllNamed(l)
  /\ ~isValidOrder(options, NameOf(l, 1), NameOf(l, 2))

\* ---------------------------------------------------------------------- C3
\* C3: for a literal of exactly two named entries A then B without
\* comments that the active comparator rejects, one pass yields exactly one
\* violation, anchored at B's key, with thisName the name of B and prevName
\* the name of A; applying its Edit yields the literal with the two
\* entries' texts exchanged; and a second pass on that reports nothing.
C3_SwapOfTwoEntries ==
  /\ (phase = "reported" /\ applied.mode = "none" /\ RejectedPair(lit)) =>
       /\ Len(found) = 1
       /\ found[1].node = 2
       /\ found[1].loc = ParseMember(lit, 2).key.loc
       /\ found[1].data.thisName = NameOf(lit, 2)
       /\ found[1].data.prevName = NameOf(lit, 1)
  /\ (applied.mode = "one" /\ RejectedPair(before)) =>
       /\ lit = <<before[2], before[1]>>
       /\ phase = "reported" => found = <<>>

C3_Witness ==
  /\ phase = "reported"
  /\ applied.mode = "one"
  /\ RejectedPair(before)
  /\ options = DefaultOptions
  /\ NameOf(before, 1) = StrLb /\ NameOf(before, 2) = StrLa
  /\ NameOf(lit, 1) = StrLa /\ NameOf(lit, 2) = StrLb
  /\ found = <<>>

\* ---------------------------------------------------------------------- C7
\* C7 as claimed: under the default configuration the literal
\* {...x, b: 1, a: 2} (a spread, then b, then a) reports no violation.
SpreadThenBA(l) ==
  /\ Len(l) = 3
  /\ l[1].type = "SpreadElement"
  /\ SlotNamed(l, 2) /\ NameOf(l, 2) = StrLb
  /\ SlotNamed(l, 3) /\ NameOf(l, 3) = StrLa

C7_SpreadBeforeBothEntries ==
  (options = DefaultOptions /\ phase = "reported" /\ SpreadThenBA(lit)) => found = <<>>

\* C7 as amended: under the default configuration the literal
\* {b: 1, ...x, a: 2} (the spread between b and a) reports no violation.
BSpreadA(l) ==
  /\ Len(l) = 3
  /\ SlotNamed(l, 1) /\ NameOf(l, 1) = StrLb
  /\ l[2].type = "SpreadElement"
  /\ SlotNamed(l, 3) /\ NameOf(l, 3) = StrLa

C7_SpreadBetweenEntries ==
  (options = DefaultOptions /\ phase = "reported" /\ BSpreadA(lit)) => found = <<>>

C7_Witness == options = DefaultOptions /\ phase = "reported" /\ BSpreadA(lit)

\* ---------------------------------------------------------------------- C9
\* C9 as claimed: under the default configuration, for a literal of named
\* entries, after every Edit of one pass was applied in sequence, each
\* exchanging the positions of its two entries, every two consecutive
\* entries are in ascending order.
C9_SortedAfterEveryEdit ==
  (options = DefaultOptions /\ applied.mode = "every" /\ AllNamed(before)) =>
    \A i \in 1..(Len(lit) - 1) : StrLeq(NameOf(lit, i), NameOf(lit, i + 1))

\* C9 as amended: under the default configuration, for a literal of named
\* entries, after one Edit of a pass was applied, the two entries it
\* exchanged are adjacent and in ascending order.
C9_ExchangedPairInOrder ==
  (options = DefaultOptions /\ applied.mode = "one" /\ AllNamed(before)) =>
    LET q == applied.reports[1].node IN
      /\ q > 1
      /\ FixTargets(applied.reports[1].fix) = {q - 1, q}
      /\ lit[q - 1] = before[q] /\ lit[q] = before[q - 1]
      /\ StrLeq(NameOf(lit, q - 1), NameOf(lit, q))

C9_Witness ==
  /\ options = DefaultOptions
  /\ applied.mode = "one"
  /\ AllNamed(before)
  /\ Len(before) = 3
  /\ applied.reports[1].node = 3
  /\ ~StrLeq(NameOf(lit, 1), NameOf(lit, 2))

\* --------------------------------------------------------------------- C10
\* C10: with allowLineSeparatedGroups disabled, from any literal of named
\* and unnamed entries, running a pass and applying the Edit of one
\* reported violation, again and again, reaches a literal on which a pass
\* reports nothing; there every two consecutive named entries with no
\* spread between them satisfy the active comparator.
Done == phase = "reported" /\ found = <<>>

GroupSorted(l) ==
  \A i, j \in 1..Len(l) :
    (/\ i < j
     /\ SlotNamed(l, i) /\ SlotNamed(l, j)
     /\ \A k \in (i + 1)..(j - 1) : l[k].type = "Property" /\ ~SlotNamed(l, k))
      => isValidOrder(options, NameOf(l, i), NameOf(l, j))

C10_RepeatedFixesConverge ==
  /\ <>Done
  /\ [](Done => (~allowLineSeparatedGroups(options) /\ GroupSorted(lit)))

C10_Witness ==
  /\ ~allowLineSeparatedGroups(options)
  /\ Done
  /\ applied.mode = "one"
  /\ Len(lit) = 3
  /\ \E k \in 1..3 : lit[k].type = "Property" /\ ~SlotNamed(lit, k)
  /\ \E i, j \in 1..3 : i < j /\ SlotNamed(lit, i) /\ SlotNamed(lit, j)
  /\ lit # before

\* ------------------------------------------------------ comparator claims
\* The state after the call of the selected comparator on cmp.a and cmp.b.
Called == cmp.valid \in {"true", "false"}

BoolStr(x) == IF x THEN "true" ELSE "false"

Modifiers == {"", "I", "N", "IN"}

\* --------------------------------------------------------------------- C11
\* C11: for all names a and b and each of the four modifier combinations,
\* the ascending predicate on (a, b) equals the descending predicate on
\* (b, a), so the selected predicate's answer on (a, b) is the answer of
\* the predicate of the other direction on (b, a); and two equal names are
\* accepted by all eight predicates.
OtherDirection(key) ==
  IF SubSeq(key, 1, 3) = "asc"
  THEN "desc" \o SubSeq(key, 4, Len(key))
  ELSE "asc" \o SubSeq(key, 5, Len(key))

C11_AscendingIsDescendingReversed ==
  cmp.a # NULL =>
    /\ \A m \in Modifiers :
         isValidOrdersAt("asc" \o m, cmp.a, cmp.b)
           = isValidOrdersAt("desc" \o m, cmp.b, cmp.a)
    /\ Called =>
         cmp.valid = BoolStr(isValidOrdersAt(OtherDirection(orderKey(options)),
                                             cmp.b, cmp.a))
    /\ cmp.a = cmp.b =>
         /\ \A key \in OrderKeys : isValidOrdersAt(key, cmp.a, cmp.b)
         /\ Called => cmp.valid = "true"

C11_Witness ==
  /\ orderKey(options) = "descN"
  /\ cmp.a = StrA2 /\ cmp.b = StrA10
  /\ cmp.valid = "false"

\* --------------------------------------------------------------------- C12
\* C12: the case-insensitive ascending predicate is the case-sensitive
\* ascending predicate on the lower-cased operands: it accepts "a" then "B"
\* and rejects "B" then "a"; the case-sensitive ascending predicate orders
\* by code point: it accepts "B" then "a", rejects "a" then "B", and puts
\* every upper-case ASCII letter before every lower-case one.
IsUpper(s) == Len(s) = 1 /\ s[1] >= 65 /\ s[1] <= 90
IsLower(s) == Len(s) = 1 /\ s[1] >= 97 /\ s[1] <= 122

C12_CaseFolding ==
  Called =>
    /\ isValidOrdersAt("ascI", cmp.a, cmp.b)
         = isValidOrdersAt("asc", toLowerCase(cmp.a), toLowerCase(cmp.b))
    /\ orderKey(options) = "ascI" =>
         /\ (cmp.a = StrLa /\ cmp.b = StrB) => cmp.valid = "true"
         /\ (cmp.a = StrB /\ cmp.b = StrLa) => cmp.valid = "false"
    /\ orderKey(options) = "asc" =>
         /\ (IsUpper(cmp.a) /\ IsLower(cmp.b)) => cmp.valid = "true"
         /\ (IsLower(cmp.a) /\ IsUpper(cmp.b)) => cmp.valid = "false"
         /\ (cmp.a = StrB /\ cmp.b = StrLa) =>
              \A u \in 65..90 : \A l \in 97..122 :
                asc(<<u>>, <<l>>) /\ ~asc(<<l>>, <<u>>)

C12_Witness ==
  /\ orderKey(options) = "ascI"
  /\ cmp.a = StrB /\ cmp.b = StrLa
  /\ cmp.valid = "false"

\* --------------------------------------------------------------------- C13
\* C13: for every configuration the schema accepts, the selected predicate
\* is defined and is one of the eight: ascending when the order is absent
\* or "asc", descending when it is "desc"; case-insensitive exactly when
\* caseSensitive is false; natural exactly when natural is true; and the
\* configuration that selects it is the same at every step of the run.
C13_Expected(a, b) ==
  LET fold(x) == IF options.options.caseSensitive = "false" THEN toLowerCase(x) ELSE x
      leq(x, y) == IF options.options.natural = "true"
                   THEN naturalCompare(fold(x), fold(y)) <= 0
                   ELSE StrLeq(fold(x), fold(y))
  IN IF options.order = "desc" THEN leq(b, a) ELSE leq(a, b)

C13_Selected ==
  /\ orderKey(options) \in OrderKeys
  /\ orderKey(options) =
       (IF options.order = "desc" THEN "desc" ELSE "asc")
         \o (IF options.options.caseSensitive = "false" THEN "I" ELSE "")
         \o (IF options.options.natural = "true" THEN "N" ELSE "")
  /\ Called => cmp.valid = BoolStr(C13_Expected(cmp.a, cmp.b))

C13_ComparatorSelectedOnce == []C13_Selected /\ [][options' = options]_vars

C13_Witness ==
  /\ options.order = "desc"
  /\ options.options.present
  /\ options.options.caseSensitive = "undefined"
  /\ options.options.natural = "undefined"
  /\ cmp.a = StrLa /\ cmp.b = StrB
  /\ cmp.valid = "true"

\* --------------------------------------------------------------------- C14
\* The step that visits an entry of a literal.
PropertyStep == ev'.type = "Property" /\ ev'.node.parent = "ObjectExpression"

\* C14 as claimed: an entry whose key is computed from a non-literal
\* expression, a bare identifier such as [foo] as well as a call such as
\* [f()] (the host resolves no static name for it), is never reported and
\* its key never becomes the frame's previous-name.
C14_ComputedStep ==
  (PropertyStep /\ ev'.node.staticName = NULL) =>
    /\ reports' = reports
    /\ Top(stack').prevName = Top(stack).prevName

C14_ComputedKeysUnnamed == [][C14_ComputedStep]_vars

\* C14 as amended: an entry whose key is computed from an expression that
\* is neither a literal nor a bare identifier, such as [f()], is never
\* reported and its key never becomes the frame's previous-name; a named
\* entry visited right after it is compared against the last named entry
\* before it (any report at it carries that entry's name, and with
\* allowLineSeparatedGroups disabled it is reported exactly when the
\* comparator rejects the two).
C14_NonIdentifierStep ==
  (PropertyStep /\ ev'.node.staticName = NULL /\ ev'.node.key.name = NULL) =>
    /\ reports' = reports
    /\ Top(stack').prevName = Top(stack).prevName

AfterUnnamedEntry ==
  /\ AfterProperty
  /\ Len(Top(hist)) >= 2
  /\ Top(hist)[Len(Top(hist)) - 1].type = "Property"
  /\ Top(hist)[Len(Top(hist)) - 1].name = NULL
  /\ IsNamed(Top(hist)[Len(Top(hist))])
  /\ Supplier(Front(Top(hist))) # 0

C14_NextComparedAgainstEarlier ==
  AfterUnnamedEntry =>
    LET h == Top(hist)
        a == h[Supplier(Front(h))]
        b == h[Len(h)]
    IN /\ \A i \in ReportsAt(b.id) : reports[i].data.prevName = a.name
       /\ ~allowLineSeparatedGroups(options) =>
            ((ReportsAt(b.id) # {}) <=> ~isValidOrder(options, a.name, b.name))

C14_NonIdentifierComputedKeysUnnamed ==
  [][C14_NonIdentifierStep]_vars /\ []C14_NextComparedAgainstEarlier

C14_Witness ==
  /\ AfterUnnamedEntry
  /\ Len(Top(hist)) = 3
  /\ ev.node.staticName = NULL
  /\ \E i \in ReportsAt(ev.node.id) : reports[i].data.prevName = Top(hist)[1].name

\* --------------------------------------------------------------------- C15
\* C15: the depth of the scope stack is the number of literals entered and
\* not yet exited (hist has one element for each); the stack is not empty
\* when an entry or a spread of a literal is visited; entering a literal
\* puts a fresh frame on top of the frames there are; no visit changes a
\* frame below the top one; exiting a literal leaves exactly the frames
\* below it, each with the previous-name, previous-node and blank-line
\* flag it had when the literal was entered; and the stack is empty when
\* every literal has been exited.
C15_Depth ==
  /\ Len(stack) = Len(hist)
  /\ (ev.type \in {"Property", "SpreadElement"} /\ ev.node.parent = "ObjectExpression")
       => Len(stack) > 0
  /\ hist = <<>> => stack = <<>>

C15_Step ==
  /\ ev'.type = "ObjectExpression" =>
       /\ Len(stack') = Len(stack) + 1
       /\ SubSeq(stack', 1, Len(stack)) = stack
       /\ Top(stack') = NewFrame
  /\ ev'.type = "ObjectExpression:exit" =>
       /\ Len(stack') = Len(stack) - 1
       /\ \A i \in 1..Len(stack') : stack'[i] = stack[i]
  /\ ev'.type \in {"Property", "SpreadElement"} =>
       /\ Len(stack') = Len(stack)
       /\ \A i \in 1..(Len(stack) - 1) : stack'[i] = stack[i]

C15_StackFollowsNesting == []C15_Depth /\ [][C15_Step]_vars

C15_Witness ==
  /\ ev.type = "ObjectExpression:exit"
  /\ Len(stack) = 1
  /\ Top(stack).prevName # NULL
  /\ Top(stack).prevNode.id = 1
  /\ Len(reports) = 1
  /\ reports[1].node = 3

\* --------------------------------------------------------------------- C16
\* C16: after the visit of an entry of a literal, whatever its outcome, the
\* current frame's previous-node is that entry and its previous-name is the
\* entry's name if it has one and is otherwise what it was before the
\* visit; no other frame of the stack is changed.
C16_Step ==
  PropertyStep =>
    /\ Len(stack') = Len(stack)
    /\ Top(stack').prevNode = ev'.node
    /\ Top(stack').prevName =
         (IF getPropertyName(ev'.node) # NULL THEN getPropertyName(ev'.node)
          ELSE Top(stack).prevName)
    /\ \A i \in 1..(Len(stack) - 1) : stack'[i] = stack[i]

C16_VisitUpdatesFrame == [][C16_Step]_vars

\* An unnamed entry visited in a nested literal after a named one: the
\* frame keeps the name and points at the unnamed entry.
C16_Witness ==
  /\ AfterProperty
  /\ Len(stack) = 2
  /\ getPropertyName(ev.node) = NULL
  /\ Top(stack).prevName # NULL
  /\ Top(stack).prevNode = ev.node
  /\ QualifyingBlank(ev.layout)

IsComment(token) == token.type \in {"Block", "Line"}

TrailingOfEarlier(node, layout) ==
  LET n == Len(layout.tokens)
      k == Len(node.commentsBefore)
  IN { node.commentsBefore[i] : i \in
         { j \in 1..k : /\ layout.tokens[1].type = "Punctuator"
                        /\ layout.tokens[n - k + j].loc.start.line
                             = layout.tokens[1].loc.end.line } }

CommentsOf(node) == { node.commentsBefore[i] : i \in 1..Len(node.commentsBefore) }

OpsAt(ops, kind, span) ==
  { x \in 1..Len(ops) : ops[x].op = kind /\ ops[x].span = span }

\* C18: the Edit of a violation is one replacement of each of the two
\* exchanged entries and, for each leading comment of either entry, one
\* insertion of it before the other entry and one removal of it; no
\* operation is on a span other than the two entries and their own leading
\* comments; a comment on the line of the separator after the earlier
\* entry, a trailing comment of that entry, is left in place.
C18_EditOf(ops, node, prev, layout) ==
  LET trailing == TrailingOfEarlier(node, layout)
      ownOfNode == CommentsOf(node) \ trailing
      ownOfPrev == CommentsOf(prev)
  IN /\ Cardinality(OpsAt(ops, "replaceText", NodeSpan(node.id))) = 1
     /\ Cardinality(OpsAt(ops, "replaceText", NodeSpan(prev.id))) = 1
     /\ \A c \in ownOfNode :
          /\ Cardinality({ x \in OpsAt(ops, "insertTextBefore", NodeSpan(prev.id)) :
                             ops[x].text = getText(c) \o <<Newline>> }) = 1
          /\ Cardinality(OpsAt(ops, "remove", c)) = 1
     /\ \A c \in ownOfPrev :
          /\ Cardinality({ x \in OpsAt(ops, "insertTextBefore", NodeSpan(node.id)) :
                             ops[x].text = getText(c) \o <<Newline>> }) = 1
          /\ Cardinality(OpsAt(ops, "remove", c)) = 1
     /\ Len(ops) = 2 + 2 * Cardinality(ownOfNode) + 2 * Cardinality(ownOfPrev)
     /\ \A x \in 1..Len(ops) :
          ops[x].span \in {NodeSpan(node.id), NodeSpan(prev.id)} \cup ownOfNode \cup ownOfPrev
     /\ \A c \in trailing : \A x \in 1..Len(ops) :
          ops[x].span # c /\ ops[x].text # getText(c) \o <<Newline>>

C18_Step ==
  PropertyStep =>
    \A i \in (Len(reports) + 1)..Len(reports') :
      C18_EditOf(reports'[i].fix, ev'.node, Top(stack).prevNode, ev'.layout)

C18_EditLeavesTrailingComment == [][C18_Step]_vars

\* --------------------------------------------------------------------- C19
\* C19: getPropertyName returns the static name the host resolves whenever
\* there is one, the empty string included; otherwise the name of the key
\* when the key is an identifier, in computed syntax or not; otherwise
\* null.  It returns null exactly when there is no static name and the key
\* has no non-empty name.
C19_NameOfEntry ==
  gpn.called =>
    LET node == gpn.node IN
    /\ node.staticName # NULL => gpn.result = node.staticName
    /\ (node.staticName = NULL /\ gpn.kind \in {"Identifier", "[Identifier]"})
         => gpn.result = node.key.name
    /\ (node.staticName = NULL /\ gpn.kind \notin {"Identifier", "[Identifier]"})
         => gpn.result = NULL
    /\ (gpn.result = NULL) <=>
         (node.staticName = NULL /\ node.key.name \in {NULL, EmptyStr})

C19_Witness ==
  /\ gpn.called
  /\ gpn.kind = "[Identifier]"
  /\ gpn.result = StrB

\* --------------------------------------------------------------------- C20
\* C20: when a violation is reported at an entry, the previous node its
\* Edit refers to is present and is the member of the same literal visited
\* immediately before the entry, an entry and not a spread; the Edit
\* exchanges these two adjacent members and no operation of it is on a
\* member of an enclosing or nested literal.
OpMembers(ops) == { ops[x].span[1] : x \in 1..Len(ops) }

C20_EditOnAdjacentMembers ==
  AfterProperty =>
    \A i \in ReportsAt(ev.node.id) :
      LET h == Top(hist)
          n == Len(h)
      IN /\ n >= 2
         /\ h[n].id = ev.node.id
         /\ h[n - 1].type = "Property"
         /\ h[n - 1].id # NullNode.id
         /\ FixTargets(reports[i].fix) = {h[n - 1].id, h[n].id}
         /\ OpMembers(reports[i].fix) = {h[n - 1].id, h[n].id}

C20_Witness ==
  /\ AfterProperty
  /\ Len(stack) = 2
  /\ stack[1].prevName # NULL
  /\ stack[1].prevNode.id = 1
  /\ ReportsAt(ev.node.id) # {}
  /\ Len(Top(hist)) = 2

====
